---- MODULE Spec2Model ----
(***************************************************************************)
(* Model of src/main.cpp: Vector3D, Segment3D and intersect.               *)
(*                                                                         *)
(* A double is modelled as an extended rational: a finite value is an      *)
(* exact fraction n/d with a sign bit (so that +0 and -0 are distinct, as  *)
(* in IEEE 754), and division produces +Inf, -Inf and NaN as IEEE 754      *)
(* does.  Rounding of finite results is not modelled: finite arithmetic    *)
(* is exact.                                                               *)
(***************************************************************************)
EXTENDS Integers

(***************************************************************************)
(* Bounds of the model.                                                    *)
(***************************************************************************)
\* The enumerated points lie on a grid of MaxX + 1 columns, x in 0..MaxX,
\* and two rows, y in {0, 1}, in two planes, z in {0, 1e-6}.
MaxX == 2

(***************************************************************************)
(* double                                                                  *)
(***************************************************************************)
RECURSIVE GCD(_, _)
GCD(a, b) == IF b = 0 THEN a ELSE GCD(b, a % b)

\* The finite double (-1)^neg * n/d, in lowest terms.
Fin(neg, n, d) ==
    IF d = 1 THEN [k |-> "fin", neg |-> neg, n |-> n, d |-> 1]
    ELSE LET g == GCD(n, d)
         IN  [k |-> "fin", neg |-> neg, n |-> n \div g, d |-> d \div g]

Inf(neg) == [k |-> "inf", neg |-> neg, n |-> 0, d |-> 1]

NaN == [k |-> "nan", neg |-> FALSE, n |-> 0, d |-> 1]

\* The double written n/d, n an integer and d > 0.
R(n, d) == IF n < 0 THEN Fin(TRUE, 0 - n, d) ELSE Fin(FALSE, n, d)

IsNaN(x) == x.k = "nan"
IsInf(x) == x.k = "inf"
IsFinite(x) == x.k = "fin"
IsZero(x) == x.k = "fin" /\ x.n = 0

\* The numerator of a finite x, with its sign.
SNum(x) == IF x.neg THEN 0 - x.n ELSE x.n

\* Unary minus.
Neg(x) == IF IsNaN(x) THEN NaN ELSE [x EXCEPT !.neg = ~x.neg]

\* x * y
Mul(x, y) ==
    IF IsNaN(x) \/ IsNaN(y) THEN NaN
    ELSE IF (IsInf(x) /\ IsZero(y)) \/ (IsZero(x) /\ IsInf(y)) THEN NaN
    ELSE IF IsInf(x) \/ IsInf(y) THEN Inf(x.neg # y.neg)
    ELSE IF x.d = 1 /\ y.d = 1 THEN Fin(x.neg # y.neg, x.n * y.n, 1)
    ELSE LET g1 == GCD(x.n, y.d)
             g2 == GCD(y.n, x.d)
         IN  Fin(x.neg # y.neg,
                 (x.n \div g1) * (y.n \div g2),
                 (x.d \div g2) * (y.d \div g1))

\* x / y
Div(x, y) ==
    IF IsNaN(x) \/ IsNaN(y) THEN NaN
    ELSE IF IsInf(x) /\ IsInf(y) THEN NaN
    ELSE IF IsZero(x) /\ IsZero(y) THEN NaN
    ELSE IF IsInf(x) THEN Inf(x.neg # y.neg)
    ELSE IF IsInf(y) THEN Fin(x.neg # y.neg, 0, 1)
    ELSE IF IsZero(y) THEN Inf(x.neg # y.neg)
    ELSE Mul(x, [k |-> "fin", neg |-> y.neg, n |-> y.d, d |-> y.n])

\* x + y; an exact zero sum is -0 only when both operands are -0.
Add(x, y) ==
    IF IsNaN(x) \/ IsNaN(y) THEN NaN
    ELSE IF IsInf(x) /\ IsInf(y) THEN (IF x.neg = y.neg THEN x ELSE NaN)
    ELSE IF IsInf(x) THEN x
    ELSE IF IsInf(y) THEN y
    ELSE LET l == IF x.d = y.d THEN x.d ELSE (x.d \div GCD(x.d, y.d)) * y.d
             sum == SNum(x) * (l \div x.d) + SNum(y) * (l \div y.d)
         IN  IF sum = 0 THEN Fin(x.neg /\ y.neg, 0, 1)
             ELSE IF sum < 0 THEN Fin(TRUE, 0 - sum, l)
             ELSE Fin(FALSE, sum, l)

\* x - y
Sub(x, y) == Add(x, Neg(y))

\* x <= y; false when either is NaN, and -0 <= +0 <= -0.
Leq(x, y) ==
    IF IsNaN(x) \/ IsNaN(y) THEN FALSE
    ELSE IF IsInf(x) THEN x.neg \/ (IsInf(y) /\ ~y.neg)
    ELSE IF IsInf(y) THEN ~y.neg
    ELSE LET l == IF x.d = y.d THEN x.d ELSE (x.d \div GCD(x.d, y.d)) * y.d
         IN  SNum(x) * (l \div x.d) <= SNum(y) * (l \div y.d)

\* x == y on doubles; false when either is NaN, and -0 == +0.
DEq(x, y) == Leq(x, y) /\ Leq(y, x)

(***************************************************************************)
(* Vector3D                                                                *)
(***************************************************************************)
Vector3D(x, y, z) == [x |-> x, y |-> y, z |-> z]

getX(v) == v.x
getY(v) == v.y
getZ(v) == v.z

\* Variant of VecEq that forgets the z member.
VecEqXY(p, q) == DEq(p.x, q.x) /\ DEq(p.y, q.y)

\* Vector3D::operator== (defaulted): memberwise == of x, y and z.
VecEq(p, q) == DEq(p.x, q.x) /\ DEq(p.y, q.y) /\ DEq(p.z, q.z)

\* Stands for "no value": no object was constructed, nothing was returned.
NoValue == Vector3D(NaN, NaN, NaN)

(***************************************************************************)
(* Segment3D                                                               *)
(***************************************************************************)
\* Segment3D::Segment3D(start, end): the members are initialised, then the
\* constructor throws std::invalid_argument when start == end.
Segment3D(start, end) ==
    IF VecEq(start, end)
    THEN [st |-> "thrown", start |-> NoValue, end |-> NoValue]
    ELSE [st |-> "ok", start |-> start, end |-> end]

getStart(seg) == seg.start
getEnd(seg) == seg.end

\* No constructor call was made yet.
NoSegment == [st |-> "none", start |-> NoValue, end |-> NoValue]

(***************************************************************************)
(* intersect                                                               *)
(***************************************************************************)
\* The six coefficients intersect derives from one segment: the lines
\* a*u + b (X), c*u + d (Y) and e*u + f (Z).
Coefficients(seg) ==
    [a |-> Sub(getX(getEnd(seg)), getX(getStart(seg))),
     b |-> getX(getStart(seg)),
     c |-> Sub(getY(getEnd(seg)), getY(getStart(seg))),
     d |-> getY(getStart(seg)),
     e |-> Sub(getZ(getEnd(seg)), getZ(getStart(seg))),
     f |-> getZ(getStart(seg))]

\* Variant of ParamS that guards the division: s = 0 when the denominator
\* is zero.
ParamSGuarded(l1, l2) ==
    IF IsZero(Sub(Mul(l1.c, l2.a), Mul(l2.c, l1.a))) THEN R(0, 1)
    ELSE Div(Sub(Add(Sub(Mul(l2.d, l1.a), Mul(l1.c, l2.b)), Mul(l1.c, l1.b)),
                 Mul(l1.d, l1.a)),
             Sub(Mul(l1.c, l2.a), Mul(l2.c, l1.a)))

\* const double s = (d2*a1 - c1*b2 + c1*b1 - d1*a1) / (c1*a2 - c2*a1);
ParamS(l1, l2) ==
    Div(Sub(Add(Sub(Mul(l2.d, l1.a), Mul(l1.c, l2.b)), Mul(l1.c, l1.b)),
            Mul(l1.d, l1.a)),
        Sub(Mul(l1.c, l2.a), Mul(l2.c, l1.a)))

\* Variant of ParamT that solves the Y equation for t when a1 = 0.
ParamTFromY(l1, l2, s) ==
    IF IsZero(l1.a) THEN Div(Sub(Add(Mul(l2.c, s), l2.d), l1.d), l1.c)
    ELSE Div(Sub(Add(Mul(l2.a, s), l2.b), l1.b), l1.a)

\* const double t = (a2*s + b2 - b1) / a1;
ParamT(l1, l2, s) == Div(Sub(Add(Mul(l2.a, s), l2.b), l1.b), l1.a)

\* k*u + m
LineAt(k, m, u) == Add(Mul(k, u), m)

\* Variant of InTolerance with < in place of <=.
InToleranceStrict(lhs, rhs, precision) ==
    /\ ~Leq(rhs, Sub(lhs, precision))
    /\ ~Leq(Add(lhs, precision), rhs)
    /\ ~IsNaN(lhs) /\ ~IsNaN(rhs)

\* Variant of InTolerance that subtracts the precision in the upper bound too.
InToleranceSignSlip(lhs, rhs, precision) ==
    Leq(Sub(lhs, precision), rhs) /\ Leq(rhs, Sub(lhs, precision))

\* lhs - precision <= rhs && rhs <= lhs + precision
InTolerance(lhs, rhs, precision) ==
    Leq(Sub(lhs, precision), rhs) /\ Leq(rhs, Add(lhs, precision))

\* intersect(segment1, segment2, precision): the point returned, or the
\* exception thrown, with the values of the locals s and t.
intersect(seg1, seg2, precision) ==
    LET l1 == Coefficients(seg1)
        l2 == Coefficients(seg2)
        s == ParamS(l1, l2)
        t == ParamT(l1, l2, s)
        px == LineAt(l2.a, l2.b, s)
        py == LineAt(l2.c, l2.d, s)
        pz == LineAt(l2.e, l2.f, s)
    IN  IF /\ InTolerance(LineAt(l1.a, l1.b, t), px, precision)
           /\ InTolerance(LineAt(l1.c, l1.d, t), py, precision)
           /\ InTolerance(LineAt(l1.e, l1.f, t), pz, precision)
        THEN [kind |-> "returned", pt |-> Vector3D(px, py, pz), s |-> s, t |-> t]
        ELSE [kind |-> "thrown", pt |-> NoValue, s |-> s, t |-> t]

\* The default value of intersect's parameter precision, 1e-6.
DefaultPrecision == R(1, 1000000)

\* intersect was not called with this precision yet.
NotCalled == [kind |-> "none", pt |-> NoValue, s |-> NaN, t |-> NaN]

(***************************************************************************)
(* main, and the enumerated callers                                        *)
(***************************************************************************)
\* The points of main.
x1 == Vector3D(R(3, 1), R(0, 1), R(1, 10000000))
x2 == Vector3D(R(1, 1), R(0, 1), R(0, 1))
x3 == Vector3D(R(0, 1), R(1, 1), R(0, 1))
x4 == Vector3D(R(0, 1), R(4, 1), R(0, 1))

\* The arguments main passes to the two constructors.
MainArgs == <<[start |-> x1, end |-> x2], [start |-> x3, end |-> x4]>>

\* The Z coordinates of the enumerated points: in the plane z = 0 or one
\* default tolerance above it.
Zs == {R(0, 1), DefaultPrecision}

\* The Y coordinates of the enumerated points.
Ys == {0, 1}

\* The enumerated points.
Points == {Vector3D(R(x, 1), R(y, 1), z) : x \in 0..MaxX, y \in Ys, z \in Zs}

\* The enumerated constructor arguments; start = end is included.
Args == [start : Points, end : Points]

\* The precisions intersect is called with.
Precisions == {R(0, 1), DefaultPrecision}

\* No constructor call was made yet, so it has no arguments.
NoArgs == [start |-> NoValue, end |-> NoValue]

VARIABLES
    in1,        \* the arguments of the first constructor call
    in2,        \* the arguments of the second constructor call
    segment1,   \* the first Segment3D, once constructed
    segment2,   \* the second Segment3D, once constructed
    calls       \* precision -> outcome of intersect(segment1, segment2, precision)

vars == <<in1, in2, segment1, segment2, calls>>

Init ==
    /\ in1 = NoArgs
    /\ in2 = NoArgs
    /\ segment1 = NoSegment
    /\ segment2 = NoSegment
    /\ calls = [p \in Precisions |-> NotCalled]

\* Segment3D s1 = { x1, x2 };
NewSegment1 ==
    /\ segment1.st = "none"
    /\ \E args \in Args \cup {MainArgs[1]} :
          /\ in1' = args
          /\ segment1' = Segment3D(args.start, args.end)
    /\ UNCHANGED <<in2, segment2, calls>>

\* Segment3D s2 = { x3, x4 }; reached only when s1 was constructed.
NewSegment2 ==
    /\ segment1.st = "ok"
    /\ segment2.st = "none"
    /\ \E args \in Args \cup {MainArgs[2]} :
          /\ in2' = args
          /\ segment2' = Segment3D(args.start, args.end)
    /\ UNCHANGED <<in1, segment1, calls>>

\* Vector3D x = intersect(s1, s2, precision);
Call(precision) ==
    /\ segment1.st = "ok"
    /\ segment2.st = "ok"
    /\ calls[precision] = NotCalled
    /\ calls' = [calls EXCEPT ![precision] = intersect(segment1, segment2, precision)]
    /\ UNCHANGED <<in1, in2, segment1, segment2>>

Next ==
    \/ NewSegment1
    \/ NewSegment2
    \/ \E precision \in Precisions : Call(precision)

Spec == Init /\ [][Next]_vars

(***************************************************************************)
(* Vocabulary of the properties                                            *)
(***************************************************************************)
Zero == R(0, 1)
One == R(1, 1)

\* |x|
Abs(x) == IF IsNaN(x) THEN NaN ELSE [x EXCEPT !.neg = FALSE]

Called(p) == calls[p].kind # "none"
Returned(p) == calls[p].kind = "returned"
Thrown(p) == calls[p].kind = "thrown"

\* The coefficients of the two constructed segments.
L1 == Coefficients(segment1)
L2 == Coefficients(segment2)

\* c1*a2 - c2*a1 = 0: the XY directions of the two segments are collinear.
CollinearXY == DEq(Mul(L1.c, L2.a), Mul(L2.c, L1.a))

\* The two lines at the parameters t and s found by the call with precision p.
X1(p) == LineAt(L1.a, L1.b, calls[p].t)
Y1(p) == LineAt(L1.c, L1.d, calls[p].t)
Z1(p) == LineAt(L1.e, L1.f, calls[p].t)
X2(p) == LineAt(L2.a, L2.b, calls[p].s)
Y2(p) == LineAt(L2.c, L2.d, calls[p].s)
Z2(p) == LineAt(L2.e, L2.f, calls[p].s)

\* |u - v| <= p
Within(u, v, p) == Leq(Abs(Sub(u, v)), p)

\* 0 <= u <= 1
InUnit(u) == Leq(Zero, u) /\ Leq(u, One)

\* The parameter of point pt on the line of seg, read off the first axis
\* along which seg moves.
ParamOf(pt, seg) ==
    LET l == Coefficients(seg)
    IN  IF ~IsZero(l.a) THEN Div(Sub(pt.x, l.b), l.a)
        ELSE IF ~IsZero(l.c) THEN Div(Sub(pt.y, l.d), l.c)
        ELSE Div(Sub(pt.z, l.f), l.e)

\* pt lies on the segment seg (geometry, independent of intersect).
OnSegment(pt, seg) ==
    LET l == Coefficients(seg)
        u == ParamOf(pt, seg)
    IN  /\ InUnit(u)
        /\ DEq(LineAt(l.a, l.b, u), pt.x)
        /\ DEq(LineAt(l.c, l.d, u), pt.y)
        /\ DEq(LineAt(l.e, l.f, u), pt.z)

OnBoth(pt) == OnSegment(pt, segment1) /\ OnSegment(pt, segment2)

Endpoints == {segment1.start, segment1.end, segment2.start, segment2.end}

\* pt is the one and only common point of the two segments: segments with
\* two common points overlap along a piece that ends in endpoints.
OnlyCommonPoint(pt) == OnBoth(pt) /\ \A q \in Endpoints : OnBoth(q) => q = pt

BothConstructed == segment1.st = "ok" /\ segment2.st = "ok"

(***************************************************************************)
(* Properties                                                              *)
(***************************************************************************)
\* C1: whenever the two segments have exactly one common point P, every
\* call of intersect returns a point within precision of P on each axis
\* (here for the P among the enumerated points).
C1_IntersectingSegmentsReturnPoint ==
    \A p \in Precisions :
        Called(p) =>
            \A pt \in Points :
                OnlyCommonPoint(pt) =>
                    /\ Returned(p)
                    /\ Within(calls[p].pt.x, pt.x, p)
                    /\ Within(calls[p].pt.y, pt.y, p)
                    /\ Within(calls[p].pt.z, pt.z, p)

\* C2: a point is returned only when it lies on both segments: t and s are
\* in [0,1] and the two lines agree within precision on all three axes.
C2_ReturnedPointOnBothSegments ==
    \A p \in Precisions :
        Returned(p) =>
            /\ InUnit(calls[p].t)
            /\ InUnit(calls[p].s)
            /\ Within(X1(p), X2(p), p)
            /\ Within(Y1(p), Y2(p), p)
            /\ Within(Z1(p), Z2(p), p)

\* C3: with the segments of main, the call with the default precision throws.
C3_MainThrows ==
    (in1 = MainArgs[1] /\ in2 = MainArgs[2] /\ Called(DefaultPrecision))
        => Thrown(DefaultPrecision)

\* C4: when the denominator c1*a2 - c2*a1 is zero, every call throws.
C4_ZeroDenominatorThrows ==
    \A p \in Precisions :
        (Called(p) /\ CollinearXY) => Thrown(p)

ConstructedAsDocumented(args, seg) ==
    /\ seg.st = "thrown" <=> args.start = args.end
    /\ seg.st = "ok" => (getStart(seg) = args.start /\ getEnd(seg) = args.end)

\* C6: a constructor call throws exactly when start and end are the same
\* point, and otherwise the accessors give back start and end.
C6_ConstructorThrowsIffSame ==
    /\ segment1.st # "none" => ConstructedAsDocumented(in1, segment1)
    /\ segment2.st # "none" => ConstructedAsDocumented(in2, segment2)

\* C6 witness: one construction from distinct points succeeded and one from
\* twice the same point threw.
C6_Witness ==
    /\ segment1.st = "ok" /\ in1.start # in1.end
    /\ segment2.st = "thrown" /\ in2.start = in2.end

\* a1 # 0 and c1*a2 - c2*a1 # 0.
Solvable == ~IsZero(L1.a) /\ ~CollinearXY

C9_MonotoneInPrecision ==
    \A p \in Precisions : \A q \in Precisions :
        (Leq(p, q) /\ Returned(p) /\ Called(q)) =>
            /\ Returned(q)
            /\ calls[q].pt = calls[p].pt

\* C9 witness: the calls with two different precisions both returned.
C9_Witness ==
    \E p \in Precisions : \E q \in Precisions :
        /\ p # q /\ Leq(p, q)
        /\ Returned(p) /\ Returned(q)

====
